---------------------------- MODULE Spec2Model ----------------------------
(***************************************************************************)
(* MediaObserver (src/lib/core/media-observer/media-observer.ts): the      *)
(* activation aggregator over MatchMedia, the BreakPointRegistry and the   *)
(* PrintHook.                                                              *)
(*                                                                         *)
(* The observable built by buildObservable is                              *)
(*   matchMedia.observe(hook.withPrintQuery(mqList))                       *)
(*     | filter(change.matches) | debounceTime(10)                         *)
(*     | switchMap(_ => of(findAllActivations()))                          *)
(*     | map(excludeOverlaps) | filter(hasChanges)                         *)
(* and it is cold: every subscription owns its own debounce timer.         *)
(*                                                                         *)
(* MatchMedia, BreakPointRegistry, PrintHook, MediaChange and mergeAlias   *)
(* are collaborators whose code is not part of the sources at hand; they   *)
(* are modelled from their contracts (spec.md, sections 3, 4.1, 4.3, 4.4). *)
(***************************************************************************)
EXTENDS Integers, Sequences, FiniteSets, TLC

(***************************************************************************)
(* Bounds of the model.                                                    *)
(***************************************************************************)
\* Milliseconds by which one Tick advances the clock.
Quantum == 5
\* The activation signals counted per debounce window saturate here.
MaxBurst == 2

\* The subscribers that may attach to asObservable().
Subscribers == {"s1", "s2"}

\* The one subscriber of the specification Spec.
Solo == {"s1"}

\* The queries whose match state changes in the specification SpecTwo.
TwoQueries == {"Q1", "Q2"}

(***************************************************************************)
(* Program constants.                                                      *)
(***************************************************************************)
\* debounceTime(10)
DebounceTime == 10

(***************************************************************************)
(* Breakpoint Registry: the injected, immutable table of breakpoints.      *)
(* The third breakpoint's alias is the first one's media query, so that    *)
(* the order of the two lookups in toMediaQuery can be observed.           *)
(***************************************************************************)
BreakPoints ==
  << [alias |-> "xs",    mediaQuery |-> "Q1", priority |-> 1, overlapping |-> FALSE],
     [alias |-> "gt-xs", mediaQuery |-> "Q2", priority |-> 5, overlapping |-> TRUE],
     [alias |-> "Q1",    mediaQuery |-> "Q3", priority |-> 3, overlapping |-> FALSE] >>

\* The synthetic print-detection query the PrintHook adds to the watch list.
PrintQuery == "print"

\* An ad-hoc media query that no breakpoint registers.
CustomQuery == "custom"

\* Every media query of the model: the registered ones, print, the ad-hoc one.
AllQueries == {BreakPoints[i].mediaQuery : i \in DOMAIN BreakPoints}
                \cup {PrintQuery, CustomQuery}

\* The arguments isActive() is called with: "Q1", which is the alias of the
\* third breakpoint and the media query of the first, and a string that is
\* neither an alias nor a registered query.
Args == {"Q1", CustomQuery}

\* What the PrintHook may resolve a print event to: the media query of the
\* print breakpoint (here the overlapping one), or '' when there is none.
PrintTargets == {"", "Q2"}

Min(a, b) == IF a <= b THEN a ELSE b
Max(a, b) == IF a >= b THEN a ELSE b

\* The least index of a non-empty set of indices, 0 when it is empty
\* (Array.prototype.find, with 0 for null).
FirstOf(indices) ==
  IF indices = {} THEN 0
  ELSE CHOOSE i \in indices : \A j \in indices : i <= j

\* BreakPointRegistry.findByAlias: the breakpoint's index, 0 for "none".
findByAlias(alias) ==
  FirstOf({i \in DOMAIN BreakPoints : BreakPoints[i].alias = alias})

\* BreakPointRegistry.findByQuery: the breakpoint's index, 0 for "none".
findByQuery(query) ==
  FirstOf({i \in DOMAIN BreakPoints : BreakPoints[i].mediaQuery = query})

\* BreakPointRegistry.items.map(bp => bp.mediaQuery)
RegisteredQueries == [i \in DOMAIN BreakPoints |-> BreakPoints[i].mediaQuery]

\* new MediaChange(matches, mediaQuery): mqAlias '', suffix '', priority 0.
MediaChange(matches, mediaQuery) ==
  [matches |-> matches, mediaQuery |-> mediaQuery,
   mqAlias |-> "", suffix |-> "", priority |-> 0]

\* mergeAlias(dest, source): source's alias, query and priority written over
\* dest's when a breakpoint was found, dest unchanged otherwise.
mergeAlias(dest, bp) ==
  IF bp = 0 THEN dest
  ELSE [dest EXCEPT !.mqAlias = BreakPoints[bp].alias,
                    !.mediaQuery = BreakPoints[bp].mediaQuery,
                    !.priority = BreakPoints[bp].priority]

VARIABLES
  mql,            \* MatchMedia: the native match state of every media query
  watched,        \* MatchMedia: the registered queries, in registration order
  printTarget,    \* PrintHook: the media query a print event resolves to
  filterOverlaps, \* MediaObserver.filterOverlaps
  subscribed,     \* per subscriber: attached to asObservable()
  pending,        \* per subscriber: debounceTime holds a value
  timer,          \* per subscriber: ms until the debounce timer is due
  burst,          \* history: activation signals since the last firing
  sinceLast,      \* history: ms since the last activation signal
  chainEmits,     \* history: emissions since the current chain of signals began
  chainRuns,      \* history: recomputations since the current chain began
  lastEmitted,    \* history: the last list delivered to the subscriber
  out,            \* the step just taken: a raw signal, a firing and its list
  call            \* the isActive() call just made: its argument, the query
                  \* MatchMedia was asked about, and the answer

vars == <<mql, watched, printTarget, filterOverlaps, subscribed, pending, timer,
          burst, sinceLast, chainEmits, chainRuns, lastEmitted, out, call>>


(***************************************************************************)
(* MatchMedia (collaborator).                                              *)
(***************************************************************************)
IsWatched(q) == \E i \in DOMAIN watched : watched[i] = q

\* MatchMedia.activations: the registered queries that currently match, in
\* registration order.
activations == SelectSeq(watched, LAMBDA q : mql[q])

\* MatchMedia.registerQuery: the queries of list not yet registered are
\* appended to the registry, in order.
RECURSIVE registerQuery(_, _)
registerQuery(reg, list) ==
  IF list = <<>> THEN reg
  ELSE LET q == Head(list) IN
       registerQuery(IF \E i \in DOMAIN reg : reg[i] = q THEN reg ELSE Append(reg, q),
                     Tail(list))

\* MatchMedia.isActive(query): the current match state of the query.
matchMediaIsActive(query) == mql[query]

(***************************************************************************)
(* PrintHook (collaborator).                                               *)
(***************************************************************************)
\* PrintHook.withPrintQuery: the watch list, extended by the print query.
withPrintQuery(queries) == Append(queries, PrintQuery)

\* PrintHook.isPrintEvent
isPrintEvent(change) == change.mediaQuery = PrintQuery

\* PrintHook.updateEvent: the substitute event of a print event; its media
\* query is the print breakpoint's, '' when there is none.
updateEvent(change) ==
  mergeAlias([change EXCEPT !.mediaQuery = printTarget], findByQuery(printTarget))

(***************************************************************************)
(* MediaObserver.                                                          *)
(***************************************************************************)
\* a.priority || 0
OrZero(p) == IF p = 0 THEN 0 ELSE p

\* Mutant of sortChangesByPriority: the operands of the subtraction swapped.
sortChangesByPriority_Ascending(a, b) == OrZero(a.priority) - OrZero(b.priority)

\* sortChangesByPriority(a, b): negative when a sorts before b.
sortChangesByPriority(a, b) == OrZero(b.priority) - OrZero(a.priority)

\* One step of a stable sort: x goes after every element it does not
\* strictly precede.
RECURSIVE InsertSorted(_, _)
InsertSorted(sorted, x) ==
  IF sorted = <<>> THEN <<x>>
  ELSE IF sortChangesByPriority(Head(sorted), x) <= 0
         THEN <<Head(sorted)>> \o InsertSorted(Tail(sorted), x)
         ELSE <<x>> \o sorted

\* Array.prototype.sort(sortChangesByPriority), which is stable.
\* (The sorted front part is bound to its value before the last element is
\* inserted, so that it is computed once.)
RECURSIVE SortChanges(_)
SortChanges(seq) ==
  IF seq = <<>> THEN <<>>
  ELSE CHOOSE result \in {InsertSorted(front, seq[Len(seq)]) :
                            front \in {SortChanges(SubSeq(seq, 1, Len(seq) - 1))}} : TRUE

\* Mutant of hasChanges: the list is only tested for being non-empty.
hasChanges_NonEmptyList(changes) == Len(changes) > 0

\* hasChanges: some entry has a non-empty mediaQuery.
hasChanges(changes) ==
  LET isValidQuery(change) == change.mediaQuery # ""
  IN  Len(SelectSeq(changes, isValidQuery)) > 0

\* Mutant of excludeOverlaps: the flag's value at construction (false) is
\* used, not its current value.
excludeOverlaps_FlagAtConstruction(changes) == changes

\* Mutant of excludeOverlaps: an entry without a breakpoint is dropped too.
excludeOverlaps_DropsUnregistered(changes) ==
  IF ~filterOverlaps THEN changes
  ELSE SelectSeq(changes,
                 LAMBDA change :
                   LET bp == findByQuery(change.mediaQuery)
                   IN  IF bp = 0 THEN FALSE ELSE ~BreakPoints[bp].overlapping)

\* excludeOverlaps: under filterOverlaps, drop the entries whose breakpoint
\* is overlapping; keep those without a breakpoint.
excludeOverlaps(changes) ==
  IF ~filterOverlaps THEN changes
  ELSE SelectSeq(changes,
                 LAMBDA change :
                   LET bp == findByQuery(change.mediaQuery)
                   IN  IF bp = 0 THEN TRUE ELSE ~BreakPoints[bp].overlapping)

\* Mutant of mergeMQAlias: the breakpoint is looked up by alias.
mergeMQAlias_ByAlias(change) == mergeAlias(change, findByAlias(change.mediaQuery))

\* mergeMQAlias
mergeMQAlias(change) == mergeAlias(change, findByQuery(change.mediaQuery))

\* Mutant of replaceWithPrintAlias: print events are not substituted.
replaceWithPrintAlias_Never(change) == change

\* replaceWithPrintAlias
replaceWithPrintAlias(change) ==
  IF isPrintEvent(change) THEN updateEvent(change) ELSE change

\* Mutant of findAllActivations: only the activation of highest priority is
\* returned, not the whole list.
findAllActivations_TopOnly ==
  LET changes  == [i \in DOMAIN activations |-> MediaChange(TRUE, activations[i])]
      replaced == [i \in DOMAIN changes |-> replaceWithPrintAlias(changes[i])]
      merged   == [i \in DOMAIN replaced |-> mergeMQAlias(replaced[i])]
      sorted   == SortChanges(merged)
  IN  IF sorted = <<>> THEN <<>> ELSE <<Head(sorted)>>

\* Mutant of findAllActivations: one entry per registered query, carrying
\* the query's match state, not one per activation.
findAllActivations_EveryRegistered ==
  LET changes  == [i \in DOMAIN watched |-> MediaChange(mql[watched[i]], watched[i])]
      replaced == [i \in DOMAIN changes |-> replaceWithPrintAlias(changes[i])]
      merged   == [i \in DOMAIN replaced |-> mergeMQAlias(replaced[i])]
  IN  SortChanges(merged)

\* findAllActivations
findAllActivations ==
  LET changes  == [i \in DOMAIN activations |-> MediaChange(TRUE, activations[i])]
      replaced == [i \in DOMAIN changes |-> replaceWithPrintAlias(changes[i])]
      merged   == [i \in DOMAIN replaced |-> mergeMQAlias(replaced[i])]
  IN  SortChanges(merged)

\* Mutant of passesFilter: the deactivation of the print query passes too.
passesFilter_AlsoLeavingPrint(change) ==
  change.matches \/ change.mediaQuery = PrintQuery

\* Mutant of passesFilter: the test is inverted, deactivations pass.
passesFilter_OnlyDeactivations(change) == ~change.matches

\* Mutant of passesFilter: the activations-only filter is missing.
passesFilter_Everything(change) == TRUE

\* filter((change: MediaChange) => change.matches)
passesFilter(change) == change.matches

\* switchMap(_ => of(this.findAllActivations())): the debounced value is
\* dropped (the model does not keep it) and the list is recomputed.
switchMap == findAllActivations

\* Mutant of toMediaQuery: the lookup by query comes first.
toMediaQuery_QueryFirst(query) ==
  LET byQuery == findByQuery(query)
      bp      == IF byQuery # 0 THEN byQuery ELSE findByAlias(query)
  IN  IF bp # 0 THEN BreakPoints[bp].mediaQuery ELSE query

\* toMediaQuery
toMediaQuery(query) ==
  LET byAlias == findByAlias(query)
      bp      == IF byAlias # 0 THEN byAlias ELSE findByQuery(query)
  IN  IF bp # 0 THEN BreakPoints[bp].mediaQuery ELSE query

\* Mutant of isActive: the answer is read off the lists last emitted.
isActive_FromLastEmitted(alias) ==
  \E s \in Subscribers :
    /\ lastEmitted[s].has
    /\ \E i \in DOMAIN lastEmitted[s].list :
         lastEmitted[s].list[i].mediaQuery = toMediaQuery(alias)

\* MediaObserver.isActive
isActive(alias) == matchMediaIsActive(toMediaQuery(alias))


\* Mutant of debounceDue: a value that arrives while the timer runs does not
\* restart it.
debounceDue_NoRestart(remaining, armed) == IF armed THEN remaining ELSE DebounceTime

\* Mutant of debounceDue: no delay, every value is passed on at once.
debounceDue_Immediate(remaining, armed) == 0

\* debounceTime(10): the delay its timer is set to when a value arrives; a
\* running timer is cancelled and restarted.
debounceDue(remaining, armed) == DebounceTime

(***************************************************************************)
(* The state machine.                                                      *)
(*                                                                         *)
(* A chain of activation signals is a maximal run of them in which each    *)
(* arrives less than DebounceTime after the one before.  burst, sinceLast, *)
(* chainEmits, chainRuns and lastEmitted are history variables: no action  *)
(* reads them in a guard or to compute program state.                      *)
(***************************************************************************)
NoOut    == [kind |-> "none", sub |-> "", list |-> <<>>, burst |-> 0]
NoCall   == [made |-> FALSE, arg |-> "", query |-> "", result |-> FALSE]
Nothing  == [has |-> FALSE, list |-> <<>>]

\* The state after construction: nothing is subscribed (the observable is
\* lazy), nothing is registered with MatchMedia, filterOverlaps = false.
Init ==
  /\ mql \in [AllQueries -> BOOLEAN]
  /\ watched = <<>>
  /\ printTarget \in PrintTargets
  /\ filterOverlaps = FALSE
  /\ subscribed = [s \in Subscribers |-> FALSE]
  /\ pending = [s \in Subscribers |-> FALSE]
  /\ timer = [s \in Subscribers |-> 0]
  /\ burst = [s \in Subscribers |-> 0]
  /\ sinceLast = [s \in Subscribers |-> DebounceTime]
  /\ chainEmits = [s \in Subscribers |-> 0]
  /\ chainRuns = [s \in Subscribers |-> 0]
  /\ lastEmitted = [s \in Subscribers |-> Nothing]
  /\ out = NoOut
  /\ call = NoCall

\* Mutant of ResetPipeline: the debounce timer is left as it is.
ResetPipeline_KeepsTimer(s) ==
  /\ UNCHANGED <<pending, timer>>
  /\ burst' = [burst EXCEPT ![s] = 0]
  /\ sinceLast' = [sinceLast EXCEPT ![s] = DebounceTime]
  /\ chainEmits' = [chainEmits EXCEPT ![s] = 0]
  /\ chainRuns' = [chainRuns EXCEPT ![s] = 0]

\* A fresh pipeline for subscriber s: the debounce is idle.
ResetPipeline(s) ==
  /\ pending' = [pending EXCEPT ![s] = FALSE]
  /\ timer' = [timer EXCEPT ![s] = 0]
  /\ burst' = [burst EXCEPT ![s] = 0]
  /\ sinceLast' = [sinceLast EXCEPT ![s] = DebounceTime]
  /\ chainEmits' = [chainEmits EXCEPT ![s] = 0]
  /\ chainRuns' = [chainRuns EXCEPT ![s] = 0]

\* asObservable().subscribe(): matchMedia.observe(hook.withPrintQuery(mqList))
\* registers the watch list with MatchMedia and the pipeline starts.
Subscribe(s) ==
  /\ ~subscribed[s]
  /\ subscribed' = [subscribed EXCEPT ![s] = TRUE]
  /\ watched' = registerQuery(watched, withPrintQuery(RegisteredQueries))
  /\ ResetPipeline(s)
  /\ out' = NoOut
  /\ call' = NoCall
  /\ UNCHANGED <<mql, printTarget, filterOverlaps, lastEmitted>>

\* The subscriber ends its subscription: its debounce timer is cancelled.
Unsubscribe(s) ==
  /\ subscribed[s]
  /\ subscribed' = [subscribed EXCEPT ![s] = FALSE]
  /\ ResetPipeline(s)
  /\ out' = NoOut
  /\ call' = NoCall
  /\ UNCHANGED <<mql, watched, printTarget, filterOverlaps, lastEmitted>>

\* The native listener of query q: its match state flips and, when q is
\* registered, MatchMedia sends the raw MediaChange down every pipeline:
\* filter(change.matches), then debounceTime(10).
NativeChange(q) ==
  LET change == MediaChange(~mql[q], q)
      heard(s) == subscribed[s] /\ IsWatched(q)
      passed(s) == heard(s) /\ passesFilter(change)
      activated(s) == heard(s) /\ change.matches
  IN  /\ mql' = [mql EXCEPT ![q] = ~mql[q]]
      /\ pending' = [s \in Subscribers |-> IF passed(s) THEN TRUE ELSE pending[s]]
      /\ timer' = [s \in Subscribers |->
                     IF passed(s) THEN debounceDue(timer[s], pending[s]) ELSE timer[s]]
      /\ burst' = [s \in Subscribers |->
                     IF activated(s) THEN Min(burst[s] + 1, MaxBurst) ELSE burst[s]]
      /\ sinceLast' = [s \in Subscribers |-> IF activated(s) THEN 0 ELSE sinceLast[s]]
      /\ chainEmits' = [s \in Subscribers |->
                          IF activated(s) /\ sinceLast[s] >= DebounceTime
                            THEN 0 ELSE chainEmits[s]]
      /\ chainRuns' = [s \in Subscribers |->
                         IF activated(s) /\ sinceLast[s] >= DebounceTime
                           THEN 0 ELSE chainRuns[s]]
      /\ out' = [NoOut EXCEPT !.kind = IF \E s \in Subscribers : heard(s)
                                         THEN IF change.matches THEN "activation"
                                                                ELSE "deactivation"
                                         ELSE "none"]
      /\ call' = NoCall
      /\ UNCHANGED <<watched, printTarget, filterOverlaps, subscribed, lastEmitted>>

\* Time passes: Quantum ms, unless a debounce timer is due.
Tick ==
  /\ \A s \in Subscribers : ~(pending[s] /\ timer[s] = 0)
  /\ \E s \in Subscribers : pending[s] \/ sinceLast[s] < DebounceTime
  /\ timer' = [s \in Subscribers |->
                 IF pending[s] THEN Max(0, timer[s] - Quantum) ELSE timer[s]]
  /\ sinceLast' = [s \in Subscribers |-> Min(DebounceTime, sinceLast[s] + Quantum)]
  /\ out' = NoOut
  /\ call' = NoCall
  /\ UNCHANGED <<mql, watched, printTarget, filterOverlaps, subscribed, pending,
                 burst, chainEmits, chainRuns, lastEmitted>>

\* Mutant of Fire: the observer remembers what it sent to s and sends only
\* the activations that were not in the previous list.
Fire_OnlyNewActivations(s) ==
  /\ pending[s] /\ timer[s] = 0
  /\ LET full == excludeOverlaps(switchMap)
         IsNew(e) == \A i \in DOMAIN lastEmitted[s].list : lastEmitted[s].list[i] # e
         list == SelectSeq(full, IsNew)
         emits == hasChanges(list)
     IN  /\ out' = [kind |-> IF emits THEN "emit" ELSE "suppress",
                    sub |-> s, list |-> list, burst |-> burst[s]]
         /\ lastEmitted' = IF emits
                             THEN [lastEmitted EXCEPT ![s] = [has |-> TRUE, list |-> list]]
                             ELSE lastEmitted
         /\ chainEmits' = [chainEmits EXCEPT
                             ![s] = IF emits THEN Min(@ + 1, MaxBurst) ELSE @]
  /\ chainRuns' = [chainRuns EXCEPT ![s] = Min(@ + 1, MaxBurst)]
  /\ pending' = [pending EXCEPT ![s] = FALSE]
  /\ burst' = [burst EXCEPT ![s] = 0]
  /\ call' = NoCall
  /\ UNCHANGED <<mql, watched, printTarget, filterOverlaps, subscribed, timer, sinceLast>>

\* The debounce timer of s fires: switchMap recomputes the list,
\* map(excludeOverlaps) filters it, filter(hasChanges) lets it through or not.
\* (A timer is armed only in a live subscription: ending it clears the timer.)
Fire(s) ==
  /\ pending[s] /\ timer[s] = 0
  /\ \E list \in {excludeOverlaps(switchMap)} :
       LET emits == hasChanges(list)
       IN
         /\ out' = [kind |-> IF emits THEN "emit" ELSE "suppress",
                    sub |-> s, list |-> list, burst |-> burst[s]]
         /\ lastEmitted' = IF emits
                             THEN [lastEmitted EXCEPT ![s] = [has |-> TRUE, list |-> list]]
                             ELSE lastEmitted
         /\ chainEmits' = [chainEmits EXCEPT
                             ![s] = IF emits THEN Min(@ + 1, MaxBurst) ELSE @]
  /\ chainRuns' = [chainRuns EXCEPT ![s] = Min(@ + 1, MaxBurst)]
  /\ pending' = [pending EXCEPT ![s] = FALSE]
  /\ burst' = [burst EXCEPT ![s] = 0]
  /\ call' = NoCall
  /\ UNCHANGED <<mql, watched, printTarget, filterOverlaps, subscribed, timer, sinceLast>>

\* The application sets filterOverlaps.
SetFilterOverlaps(b) ==
  /\ filterOverlaps # b
  /\ filterOverlaps' = b
  /\ out' = NoOut
  /\ call' = NoCall
  /\ UNCHANGED <<mql, watched, printTarget, subscribed, pending, timer, burst,
                 sinceLast, chainEmits, chainRuns, lastEmitted>>

\* Mutant of IsActive: the argument itself is handed to MatchMedia, not
\* the query it resolves to.
IsActive_RegistersArgument(arg) ==
  /\ call' = [made |-> TRUE, arg |-> arg, query |-> toMediaQuery(arg),
               result |-> isActive(arg)]
  /\ watched' = registerQuery(watched, <<arg>>)
  /\ out' = NoOut
  /\ UNCHANGED <<mql, printTarget, filterOverlaps, subscribed, pending, timer,
                 burst, sinceLast, chainEmits, chainRuns, lastEmitted>>

\* MediaObserver.isActive(arg); MatchMedia.isActive registers the query it
\* is asked about when it is not yet registered.
IsActive(arg) ==
  /\ call' = [made |-> TRUE, arg |-> arg, query |-> toMediaQuery(arg),
               result |-> isActive(arg)]
  /\ watched' = registerQuery(watched, <<toMediaQuery(arg)>>)
  /\ out' = NoOut
  /\ UNCHANGED <<mql, printTarget, filterOverlaps, subscribed, pending, timer,
                 burst, sinceLast, chainEmits, chainRuns, lastEmitted>>

\* One subscriber, every query, isActive calls.
Next ==
  \/ \E s \in Solo : Subscribe(s)
  \/ \E s \in Solo : Unsubscribe(s)
  \/ \E q \in AllQueries : NativeChange(q)
  \/ Tick
  \/ \E s \in Solo : Fire(s)
  \/ \E b \in BOOLEAN : SetFilterOverlaps(b)
  \/ \E arg \in Args : IsActive(arg)

Spec == Init /\ [][Next]_vars

\* Two subscribers in a narrower environment: only the queries of
\* TwoQueries change, there is no print breakpoint, isActive is not called.
InitTwo ==
  /\ Init
  /\ printTarget = ""
  /\ \A q \in AllQueries \ TwoQueries : ~mql[q]

NextTwo ==
  \/ \E s \in Subscribers : Subscribe(s)
  \/ \E s \in Subscribers : Unsubscribe(s)
  \/ \E q \in TwoQueries : NativeChange(q)
  \/ Tick
  \/ \E s \in Subscribers : Fire(s)
  \/ \E b \in BOOLEAN : SetFilterOverlaps(b)

SpecTwo == InitTwo /\ [][NextTwo]_vars

\* The queries whose match state changes in the specification SpecLive.
LiveQueries == {"Q1", "Q2", PrintQuery}

\* One subscriber, the queries of LiveQueries, no isActive calls; time
\* passes while a window is open, and a timer that is due runs.
InitLive ==
  /\ Init
  /\ \A q \in AllQueries \ LiveQueries : ~mql[q]

NextLive ==
  \/ \E s \in Solo : Subscribe(s)
  \/ \E s \in Solo : Unsubscribe(s)
  \/ \E q \in LiveQueries : NativeChange(q)
  \/ Tick
  \/ \E s \in Solo : Fire(s)
  \/ \E b \in BOOLEAN : SetFilterOverlaps(b)

SpecLive ==
  /\ InitLive /\ [][NextLive]_vars
  /\ WF_vars(Tick)
  /\ WF_vars(\E s \in Solo : Fire(s))


(***************************************************************************)
(* Properties.                                                             *)
(***************************************************************************)

\* C1: a deactivation signal never triggers an emission.  Every emission
\* is preceded, since the previous firing of the debounce timer (or since
\* subscription), by at least one raw activation signal, and a debounce
\* window is only ever opened by an activation signal, so a deactivation
\* alone leaves nothing pending that could emit later.
C1_NoDeactivationOnlyEmission ==
  /\ out.kind = "emit" => out.burst >= 1
  /\ \A s \in Subscribers : pending[s] => burst[s] >= 1

\* C1's case: after an emission, the deactivation of the last active query
\* has just been heard by a subscriber, and nothing is pending for it.
C1_Witness ==
  /\ out.kind = "deactivation"
  /\ \A q \in AllQueries : ~mql[q]
  /\ \E s \in Subscribers : subscribed[s] /\ lastEmitted[s].has /\ ~pending[s]


(***************************************************************************)
(* What a published list is expected to hold, stated on the queries and    *)
(* independently of findAllActivations and excludeOverlaps.                *)
(***************************************************************************)
\* The media query that the list's entry for an active query q carries.
Resolved(q) == IF q = PrintQuery THEN printTarget ELSE q

\* The query belongs to a breakpoint marked overlapping.
Overlapping(query) ==
  \E i \in DOMAIN BreakPoints :
    BreakPoints[i].mediaQuery = query /\ BreakPoints[i].overlapping

\* The queries MatchMedia reports as active: registered and matching.
ActiveQueries == {q \in AllQueries : IsWatched(q) /\ mql[q]}

\* The active queries whose entry overlap filtering keeps.
KeptQueries == {q \in ActiveQueries : ~(filterOverlaps /\ Overlapping(Resolved(q)))}

\* The step just taken was a firing of a debounce timer.
Fired == out.kind \in {"emit", "suppress"}

HasEntryFor(list, query) == \E i \in DOMAIN list : list[i].mediaQuery = query

\* C2 as stated: every chain of N >= 1 activation signals, each less than
\* the debounce window after the one before, ends in exactly one emission;
\* so the firing that closes such a chain always delivers a list.
C2_Original ==
  (Fired /\ out.burst >= 1) => out.kind = "emit"

\* C2, amended: a chain of N >= 1 activation signals yields at most one
\* emission (not N).  The firing of the debounce timer delivers a list
\* exactly when some kept active query resolves to a non-empty mediaQuery,
\* and a delivered list has an entry for every active query that overlap
\* filtering keeps (the print query by the PrintHook's substitute).
C2_Coalescing ==
  /\ \A s \in Subscribers : chainEmits[s] <= 1
  /\ Fired => (out.kind = "emit" <=> \E q \in KeptQueries : Resolved(q) # "")
  /\ out.kind = "emit" =>
       \A q \in KeptQueries : HasEntryFor(out.list, Resolved(q))

\* C2's case: two activation signals of one chain were coalesced into the
\* single emission just delivered, which lists two queries.
C2_Witness ==
  /\ out.kind = "emit" /\ out.burst >= 2
  /\ chainEmits[out.sub] = 1
  /\ Len(out.list) >= 2


\* The media queries of a list's entries.
QueriesOf(list) == {list[i].mediaQuery : i \in DOMAIN list}

\* C3: within one debounce window the recomputation runs exactly once: not
\* while the window is open, once when the timer fires.  The recomputed
\* list is that of the Matcher's state at the firing: its entries are the
\* queries active now (after overlap filtering), whatever the raw signals
\* of the window said, so a query activated and deactivated again inside
\* the window is not listed.
C3_RecomputedOnceAtFiring ==
  /\ \A s \in Subscribers : chainRuns[s] <= 1
  /\ \A s \in Subscribers : pending[s] => chainRuns[s] = 0
  /\ Fired => chainRuns[out.sub] = 1
  /\ Fired => QueriesOf(out.list) = {Resolved(q) : q \in KeptQueries}

\* C3's case: the window saw two activation signals, one of them undone by
\* a deactivation before the timer fired, and the list just delivered
\* holds the one query that is still active.
C3_Witness ==
  /\ out.kind = "emit" /\ out.burst >= 2
  /\ Cardinality(ActiveQueries) = 1
  /\ Len(out.list) = 1


PositionOf(q) == CHOOSE i \in DOMAIN watched : watched[i] = q

\* Entry i of the list stems from an active query that MatchMedia lists
\* before one that entry j stems from.
InActivationOrder(list, i, j) ==
  \E qa, qb \in ActiveQueries :
    /\ Resolved(qa) = list[i].mediaQuery
    /\ Resolved(qb) = list[j].mediaQuery
    /\ PositionOf(qa) < PositionOf(qb)

\* C5: every emitted list is sorted by descending priority, and entries of
\* equal priority keep the order their queries have in MatchMedia's
\* activations sequence.  Activations with priorities 1, 5, 3 (in that
\* order) are emitted as 5, 3, 1.
C5_SortedByDescendingPriority ==
  out.kind = "emit" =>
    /\ \A i, j \in DOMAIN out.list :
         i < j => out.list[i].priority >= out.list[j].priority
    /\ \A i, j \in DOMAIN out.list :
         (i < j /\ out.list[i].priority = out.list[j].priority
                /\ out.list[i] # out.list[j])
           => InActivationOrder(out.list, i, j)
    /\ (activations = <<"Q1", "Q2", "Q3">> /\ ~filterOverlaps)
         => [i \in DOMAIN out.list |-> out.list[i].priority] = <<5, 3, 1>>

\* C5's case: the activations of priorities 1, 5, 3 are emitted as 5, 3, 1
\* and behind them two entries of priority 0 in their activation order:
\* the ad-hoc query, registered first, and then the print substitute.
C5_Witness ==
  /\ out.kind = "emit"
  /\ [i \in DOMAIN out.list |-> out.list[i].priority] = <<5, 3, 1, 0, 0>>
  /\ out.list[4].mediaQuery = CustomQuery
  /\ out.list[5].mediaQuery = ""
  /\ PositionOf(CustomQuery) < PositionOf(PrintQuery)


\* C6: under filterOverlaps no emitted list has an entry whose mediaQuery
\* is that of an overlapping breakpoint, and every active query whose
\* breakpoint is not overlapping, or that has no breakpoint, keeps its
\* entry; without filterOverlaps no entry is removed.  With Q2
\* (overlapping) and Q1 (not overlapping) matching, the list is [Q1] under
\* filterOverlaps and holds both without it.
C6_OverlapFiltering ==
  out.kind = "emit" =>
    /\ filterOverlaps => \A i \in DOMAIN out.list : ~Overlapping(out.list[i].mediaQuery)
    /\ \A q \in ActiveQueries :
         ~Overlapping(Resolved(q)) => HasEntryFor(out.list, Resolved(q))
    /\ ~filterOverlaps =>
         /\ Len(out.list) = Cardinality(ActiveQueries)
         /\ \A q \in ActiveQueries : HasEntryFor(out.list, Resolved(q))
    /\ ActiveQueries = {"Q1", "Q2"} =>
         QueriesOf(out.list) = IF filterOverlaps THEN {"Q1"} ELSE {"Q1", "Q2"}

\* C6's case: under filterOverlaps the overlapping Q2, the non-overlapping
\* Q1 and the ad-hoc query all match; the emitted list is Q1 and the
\* ad-hoc query.
C6_Witness ==
  /\ out.kind = "emit" /\ filterOverlaps
  /\ ActiveQueries = {"Q1", "Q2", CustomQuery}
  /\ QueriesOf(out.list) = {"Q1", CustomQuery}


\* Some entry of the list has a non-empty mediaQuery.
HasValidQuery(list) == \E i \in DOMAIN list : list[i].mediaQuery # ""

\* C7: no list delivered to a subscriber is empty or without an entry of
\* non-empty mediaQuery; when the debounce timer fires while no query is
\* active, or while overlap filtering removes every entry, nothing is
\* emitted in that cycle.
C7_EmptySuppression ==
  /\ out.kind = "emit" => (out.list # <<>> /\ HasValidQuery(out.list))
  /\ \A s \in Subscribers :
       lastEmitted[s].has =>
         (lastEmitted[s].list # <<>> /\ HasValidQuery(lastEmitted[s].list))
  /\ (Fired /\ (ActiveQueries = {} \/ KeptQueries = {})) => out.kind = "suppress"
  /\ out.kind = "suppress" => ~HasValidQuery(out.list)

\* C7's case: the timer fired while only the overlapping Q2 was active and
\* filterOverlaps was set: the filter removed every entry and nothing was
\* emitted.
C7_Witness ==
  /\ out.kind = "suppress" /\ out.burst >= 1
  /\ filterOverlaps
  /\ ActiveQueries = {"Q2"}
  /\ out.list = <<>>


\* The breakpoints registered for a media query.
BreakPointsOf(query) == {i \in DOMAIN BreakPoints : BreakPoints[i].mediaQuery = query}

\* C8: in every emitted list an entry whose mediaQuery is registered
\* carries that breakpoint's alias and priority, and an entry whose
\* mediaQuery is not registered carries an empty alias and priority 0.
C8_AliasResolution ==
  out.kind = "emit" =>
    \A i \in DOMAIN out.list :
      LET entry == out.list[i] IN
      IF BreakPointsOf(entry.mediaQuery) # {}
        THEN \E b \in BreakPointsOf(entry.mediaQuery) :
               /\ entry.mqAlias = BreakPoints[b].alias
               /\ entry.priority = BreakPoints[b].priority
        ELSE entry.mqAlias = "" /\ entry.priority = 0

\* C8's case: the emitted list holds the registered Q2 with its alias and
\* priority, and the ad-hoc query with neither.
C8_Witness ==
  /\ out.kind = "emit"
  /\ \E i \in DOMAIN out.list :
       /\ out.list[i].mediaQuery = "Q2"
       /\ out.list[i].mqAlias = "gt-xs"
       /\ out.list[i].priority = 5
  /\ \E i \in DOMAIN out.list :
       /\ out.list[i].mediaQuery = CustomQuery
       /\ out.list[i].mqAlias = ""
       /\ out.list[i].priority = 0


\* C9: isActive(x) returns MatchMedia's current match state of the query
\* that x resolves to, at any point of a run: before the first emission,
\* while a debounce window is open, after a deactivation that emitted
\* nothing.  It is not read off the last emitted list, which it may
\* contradict.
C9_IsActiveBypass ==
  call.made => call.result = mql[call.query]

\* C9's case: the last emitted list names Q3, Q3 has stopped matching
\* since (which emitted nothing), and isActive("Q1"), which resolves to
\* Q3, has just answered false.
C9_Witness ==
  /\ call.made /\ call.query = "Q3" /\ ~call.result
  /\ \E s \in Subscribers :
       /\ subscribed[s] /\ ~pending[s]
       /\ lastEmitted[s].has /\ HasEntryFor(lastEmitted[s].list, "Q3")

\* The query an argument of isActive stands for: the media query of the
\* first breakpoint with that alias, the argument itself when there is none.
ExpectedQuery(arg) ==
  LET aliased == {i \in DOMAIN BreakPoints : BreakPoints[i].alias = arg}
  IN  IF aliased # {}
        THEN BreakPoints[CHOOSE i \in aliased : \A j \in aliased : i <= j].mediaQuery
        ELSE arg

\* C10: isActive(arg) asks MatchMedia about bp.mediaQuery when arg is the
\* alias of a breakpoint bp, also when arg is another breakpoint's media
\* query, and about arg itself when no breakpoint is found; it returns a
\* boolean in either case.
C10_IsActiveResolution ==
  call.made =>
    /\ call.query = ExpectedQuery(call.arg)
    /\ call.result \in BOOLEAN
    /\ call.result = mql[ExpectedQuery(call.arg)]
    /\ IsWatched(ExpectedQuery(call.arg))

\* C10's case: isActive("Q1"), where "Q1" is the alias of the breakpoint
\* of Q3 and the media query of another one, has answered with the state
\* of Q3, which differs from that of Q1.
C10_Witness ==
  /\ call.made /\ call.arg = "Q1"
  /\ call.query = "Q3"
  /\ mql["Q1"] /\ ~mql["Q3"]
  /\ call.result = FALSE


\* The print context: the print query is registered and matches.
InPrint == PrintQuery \in ActiveQueries

\* The event the PrintHook substitutes for the print query's, as the list
\* carries it: an activation of the print breakpoint's media query with
\* that breakpoint's alias and priority, or of '' without alias.
PrintSubstitute ==
  LET bps == BreakPointsOf(printTarget) IN
  [matches |-> TRUE, mediaQuery |-> printTarget, suffix |-> "",
   mqAlias |-> IF bps = {} THEN "" ELSE BreakPoints[CHOOSE b \in bps : TRUE].alias,
   priority |-> IF bps = {} THEN 0 ELSE BreakPoints[CHOOSE b \in bps : TRUE].priority]

HasEntry(list, entry) == \E i \in DOMAIN list : list[i] = entry

\* C11 as stated: in a print context every emitted list contains the
\* PrintHook's substitute event.
C11_Original ==
  (out.kind = "emit" /\ InPrint) => HasEntry(out.list, PrintSubstitute)

\* C11, amended: in a print context the raw event of the print query is
\* in no emitted list; the PrintHook's substitute, alias-merged by its own
\* mediaQuery, is in its place unless filterOverlaps is set and the
\* substitute's breakpoint is overlapping, which removes it as it removes
\* any other entry; the active queries that are no print events have
\* their own entries.
C11_PrintSubstitution ==
  (out.kind = "emit" /\ InPrint) =>
    /\ ~HasEntryFor(out.list, PrintQuery)
    /\ HasEntry(out.list, PrintSubstitute)
         <=> ~(filterOverlaps /\ Overlapping(printTarget))
    /\ \A q \in KeptQueries \ {PrintQuery} :
         \E i \in DOMAIN out.list :
           out.list[i].mediaQuery = q /\ out.list[i].matches

\* C11's case: print matches and resolves to Q2, which itself does not
\* match; the emitted list holds the substitute for Q2 and the entry of
\* the active Q1.
C11_Witness ==
  /\ out.kind = "emit" /\ InPrint /\ ~filterOverlaps
  /\ printTarget = "Q2" /\ ~mql["Q2"]
  /\ HasEntry(out.list, PrintSubstitute)
  /\ HasEntryFor(out.list, "Q1")


\* C12: a subscriber that has ended its subscription receives nothing
\* more, not even the emission of a window that was open when it left
\* (its timer is cleared), and its leaving changes nothing for the other
\* subscribers: their timers, open windows and emissions stay as they are.
C12_NoEmissionAfterUnsubscribe ==
  /\ [](out.kind = "emit" => subscribed[out.sub])
  /\ [](\A s \in Subscribers : ~subscribed[s] => ~pending[s])
  /\ [][\A s \in Subscribers :
          ~subscribed[s] => lastEmitted'[s] = lastEmitted[s]]_vars
  /\ [][\A s, t \in Subscribers :
          (s # t /\ subscribed[s] /\ ~subscribed'[s]) =>
             /\ pending'[t] = pending[t]
             /\ timer'[t] = timer[t]
             /\ subscribed'[t] = subscribed[t]
             /\ lastEmitted'[t] = lastEmitted[t]]_vars

\* C12's case: s1 left while its window was open (an activation of Q1 had
\* armed both timers, s1 has received nothing), and s2 has just been
\* delivered the list of that window.
C12_Witness ==
  /\ ~subscribed["s1"] /\ ~lastEmitted["s1"].has
  /\ out.kind = "emit" /\ out.sub = "s2" /\ out.burst = 1
  /\ watched # <<>> /\ ActiveQueries = {"Q1"}
  /\ sinceLast["s2"] = DebounceTime


\* The steps taken by the MediaObserver itself, told by what they leave behind.
SubscribeStep == \E s \in Subscribers : ~subscribed[s] /\ subscribed'[s]
UnsubscribeStep == \E s \in Subscribers : subscribed[s] /\ ~subscribed'[s]
FireStep == out'.kind \in {"emit", "suppress"}
IsActiveStep == call'.made
ToggleStep == filterOverlaps' # filterOverlaps
AggregatorStep ==
  SubscribeStep \/ UnsubscribeStep \/ FireStep \/ IsActiveStep \/ ToggleStep

\* sequence a is an initial part of sequence b
IsPrefix(a, b) == Len(a) <= Len(b) /\ \A i \in DOMAIN a : a[i] = b[i]

\* C13 as stated: no operation of the MediaObserver (subscribing, a debounce
\* firing, isActive) changes the match states or the set of watched queries.
C13_Original ==
  [][(SubscribeStep \/ FireStep \/ IsActiveStep) =>
        mql' = mql /\ watched' = watched]_vars

\* C13, amended: no operation of the MediaObserver changes a query's match
\* state, and none removes a watched query; a debounce firing, a toggling of
\* filterOverlaps and the end of a subscription leave the watched queries as
\* they are, but subscribing registers the watch list and isActive
\* registers the query its argument resolves to.
C13_MatcherStateFrame ==
  [][/\ AggregatorStep => mql' = mql
     /\ IsPrefix(watched, watched')
     /\ (FireStep \/ ToggleStep \/ UnsubscribeStep) => watched' = watched
     /\ SubscribeStep =>
          watched' = registerQuery(watched, withPrintQuery(RegisteredQueries))
     /\ IsActiveStep =>
          watched' = registerQuery(watched, <<ExpectedQuery(call'.arg)>>)]_vars

\* C13's case: isActive was asked about the ad-hoc query, which no
\* subscription watches; MatchMedia now watches it, ahead of the watch list
\* that the later subscription registered, and a list has been emitted since.
C13_Witness ==
  /\ call.made /\ call.arg = CustomQuery /\ call.result
  /\ Len(watched) > 1 /\ watched[1] = CustomQuery
  /\ \E s \in Subscribers : lastEmitted[s].has


C15_Deduplicated ==
  out.kind = "emit" =>
    /\ \A i, j \in DOMAIN out.list :
         out.list[i].mediaQuery = out.list[j].mediaQuery => i = j
    /\ Len(out.list) <= Cardinality(ActiveQueries)


\* C16: every entry of every emitted list has matches = TRUE, the entry
\* that stands for the print event included; a query that does not match
\* has no entry with matches = FALSE.
C16_OnlyActivations ==
  out.kind = "emit" => \A i \in DOMAIN out.list : out.list[i].matches = TRUE

\* C16's case: a list emitted in print mode while a registered query (Q3)
\* does not match: the list holds the substitute of the print event and
\* the entry of Q1, and nothing for Q3.
C16_Witness ==
  /\ out.kind = "emit" /\ InPrint /\ printTarget = "Q2"
  /\ mql["Q1"] /\ ~mql["Q3"] /\ IsWatched("Q3")
  /\ Len(out.list) = 2
  /\ out.list[1] = PrintSubstitute /\ out.list[1].matches
  /\ out.list[2].mediaQuery = "Q1"


\* A window of s is open and the last step was not an activation.
Waiting(s) == pending[s] /\ out.kind # "activation"

\* The window of s has closed (its timer has fired), or s has left, or a
\* further activation has arrived.
Closed(s) == (Fired /\ out.sub = s) \/ ~subscribed[s] \/ out.kind = "activation"

\* An activation that the subscribers hear opens a window of DebounceTime,
\* or starts the open one again.
ActivationArmsWindow ==
  [][\A s \in Subscribers :
       (subscribed[s] /\ out'.kind = "activation") =>
          (pending'[s] /\ timer'[s] = DebounceTime)]_vars

\* C17 as stated: an open window closes unless s leaves or a further
\* activation arrives, a stream of activations keeps it open, and the
\* closing delivers an emission whenever the filtered list is not empty.
C17_Original ==
  /\ \A s \in Solo : Waiting(s) ~> Closed(s)
  /\ ActivationArmsWindow
  /\ []((Fired /\ out.list # <<>>) => out.kind = "emit")

\* C17, amended: an open window closes unless s leaves or a further
\* activation arrives; every activation heard (re)starts the window, so the
\* timer fires only a full DebounceTime after the last activation; and
\* the firing delivers an emission exactly when the filtered list has an
\* entry with a non-empty mediaQuery.
C17_EmissionLiveness ==
  /\ \A s \in Solo : Waiting(s) ~> Closed(s)
  /\ ActivationArmsWindow
  /\ [](Fired => /\ sinceLast[out.sub] = DebounceTime
                 /\ out.kind = "emit" <=>
                      \E i \in DOMAIN out.list : out.list[i].mediaQuery # "")

\* C17's case: the window of s1 has closed after a stream of two
\* activations and s1 has been sent the list; the print event's substitute
\* has no media query, the entry of Q1 makes the list worth sending.
C17_Witness ==
  /\ out.kind = "emit" /\ out.sub = "s1" /\ out.burst = 2
  /\ InPrint /\ printTarget = ""
  /\ HasEntryFor(out.list, "") /\ HasEntryFor(out.list, "Q1")
  /\ sinceLast["s1"] = DebounceTime /\ ~pending["s1"]


\* C18: a deactivation signal changes no debounce timer: it opens no
\* window, and it neither restarts, extends nor cancels an open one, so the
\* timer fires a full DebounceTime after the last activation; the list
\* computed then has entries for queries that are active at that moment
\* only, none for a query deactivated meanwhile.
C18_DeactivationsLeaveTheWindowAlone ==
  /\ [][out'.kind = "deactivation" =>
          (pending' = pending /\ timer' = timer /\ sinceLast' = sinceLast)]_vars
  /\ [](Fired => sinceLast[out.sub] = DebounceTime)
  /\ [](Fired => \A i \in DOMAIN out.list :
                   \E q \in ActiveQueries : out.list[i].mediaQuery = Resolved(q))

\* C18's case: the window that one activation opened for s1 is half over
\* and a deactivation has just been heard: Q1 and Q3 do not match, Q2 does,
\* and the timer still runs.
C18_Witness ==
  /\ out.kind = "deactivation"
  /\ pending["s1"] /\ burst["s1"] = 1
  /\ timer["s1"] > 0 /\ timer["s1"] < DebounceTime
  /\ sinceLast["s1"] = DebounceTime - timer["s1"]
  /\ ActiveQueries = {"Q2"}


\* C19: setting filterOverlaps delivers nothing, changes no list already
\* delivered and no debounce timer; every list emitted afterwards is
\* filtered by the flag's value at that emission: no entry of an
\* overlapping breakpoint while it is true, one entry per active query
\* while it is false.
C19_FlagReadAtEmission ==
  /\ [][ToggleStep =>
          /\ out'.kind = "none"
          /\ lastEmitted' = lastEmitted
          /\ pending' = pending /\ timer' = timer]_vars
  /\ []((out.kind = "emit" /\ filterOverlaps) =>
          \A i \in DOMAIN out.list : ~Overlapping(out.list[i].mediaQuery))
  /\ []((out.kind = "emit" /\ ~filterOverlaps) =>
          Len(out.list) = Cardinality(ActiveQueries))

\* C19's case: s1 has received a list with the overlapping Q2, Q2 still
\* matches, a window of s1 has just been opened and, before any time has
\* passed, filterOverlaps has been set to true (every query is registered
\* and the last step was neither a signal nor an isActive call).
C19_Witness ==
  /\ filterOverlaps /\ out.kind = "none" /\ ~call.made
  /\ subscribed["s1"] /\ pending["s1"] /\ timer["s1"] = DebounceTime
  /\ sinceLast["s1"] = 0
  /\ \A q \in AllQueries : IsWatched(q)
  /\ lastEmitted["s1"].has /\ HasEntryFor(lastEmitted["s1"].list, "Q2")
  /\ mql["Q2"] /\ ~mql[PrintQuery]

=============================================================================
